---- MODULE Spec2Model ----
(***************************************************************************)
(* A model of the ingestion-and-cache core of src/indexnew.js: the         *)
(* playlist parser parseM3U, the module-level cache object, and the three  *)
(* request handlers (/manifest.json, /catalog, /stream) that read and      *)
(* refresh it.  Node runs one handler at a time and switches handlers only *)
(* at an await on I/O, so every action below is one run of handler code    *)
(* from one such await (or the request's arrival) to the next.             *)
(*                                                                         *)
(* Strings the code takes apart are sequences of lexemes (the pieces the   *)
(* code tells apart: a comma, a blank, a URL body); strings it only        *)
(* compares or copies are TLA+ strings.  JavaScript's null is Null.        *)
(***************************************************************************)
EXTENDS Integers, Sequences, FiniteSets, Bags, TLC

VARIABLES
    cache,      \* the module-level cache object (indexnew.js:19-27)
    clock,      \* Date.now(), in milliseconds
    req,        \* the suspended handlers: each one's position and live locals
    sent,       \* the response most recently sent (res.json)
    published,  \* history: the parseM3U run whose result was last stored
    parse,      \* one parseM3U run on drawn inputs (specification SpecParse)
    epg,        \* one parseEPG call and its stream (specification SpecEpg)
    calc        \* one call of a synchronous function: its input and result

vars == <<cache, clock, req, sent, published, parse, epg, calc>>

Null == "null"

(***************************************************************************)
(* Bounds of the model.                                                    *)
(***************************************************************************)
\* cache.maxChannels is 10000 in the program; the model scales the cap down
\* so that documents of MaxLines lines reach it.
MaxChannels == 2
\* longest playlist document, in lines, that SpecParse draws
MaxLines == 3
\* request handlers that may be in flight at once
MaxReqs == 2
\* the clock stops after this many ticks
MaxClock == 2

Hour == 60 * 60 * 1000

\* the clock's resolution: after one tick a snapshot's age has passed the
\* default playlist interval (2 h) and equals the interval "04:00"; after
\* two it has passed the guide interval (6 h)
TickStep == 4 * Hour

Range(s) == {s[i] : i \in 1..Len(s)}

(***************************************************************************)
(* Playlist documents.  response.data.split('\n') with each line trimmed   *)
(* is a sequence of lines; a line is modelled by what the parser's tests   *)
(* and regular expressions read from it.                                   *)
(*   extinf: starts with '#EXTINF:'; name, tvgId, logo, group are the      *)
(*           first groups of the four matches, Null where none matches     *)
(*   url:    non-empty and starts with 'http' or 'rtmp'                    *)
(*   other:  anything else (blank, comment, '#EXTM3U', ...)                *)
(***************************************************************************)
ExtInf(name, tvgId, logo, group) ==
    [type |-> "extinf", name |-> name, tvgId |-> tvgId, logo |-> logo,
     group |-> group, url |-> Null]

UrlLine(u) ==
    [type |-> "url", name |-> Null, tvgId |-> Null, logo |-> Null,
     group |-> Null, url |-> u]

OtherLine ==
    [type |-> "other", name |-> Null, tvgId |-> Null, logo |-> Null,
     group |-> Null, url |-> Null]

\* name.toLowerCase().replace(/[^\w]/g, '_') on the names the model uses
Slug(name) ==
    CASE name = "BBC One" -> "bbc_one"
      [] name = "CNN"     -> "cnn"
      [] name = "Unknown" -> "unknown"
      [] OTHER            -> name

\* currentChannel = null
NoChannel == [id |-> Null]

\* Set.add on a Set kept in insertion order (Array.from gives that order)
SetAdd(s, g) == IF g \in Range(s) THEN s ELSE Append(s, g)

(***************************************************************************)
(* The body of the line loop of parseM3U for one line.  st is the loop's   *)
(* state: channels and genres (shared by all sources of the run),          *)
(* currentChannel, and stop (the break at the channel limit was taken).    *)
(***************************************************************************)
\* MetaLine without genres.add(group)
MetaLineForgetsGroup(st, line, urlIndex) ==
    LET name  == IF line.name = Null THEN "Unknown" ELSE line.name
        tvgId == IF line.tvgId = Null THEN Slug(name) ELSE line.tvgId
        group == IF line.group = Null THEN "Other Channels" ELSE line.group
    IN  [st EXCEPT
           !.currentChannel =
               [id          |-> "tv|" \o tvgId \o "_" \o ToString(urlIndex),
                name        |-> name,
                tvgId       |-> tvgId,
                logo        |-> line.logo,
                group       |-> group,
                sourceIndex |-> urlIndex,
                streamInfo  |-> [urls |-> <<>>,
                                 tvg  |-> [id |-> tvgId, name |-> name]]]]

MetaLine(st, line, urlIndex) ==
    LET name  == IF line.name = Null THEN "Unknown" ELSE line.name
        tvgId == IF line.tvgId = Null THEN Slug(name) ELSE line.tvgId
        group == IF line.group = Null THEN "Other Channels" ELSE line.group
    IN  [st EXCEPT
           !.genres = SetAdd(st.genres, group),
           !.currentChannel =
               [id          |-> "tv|" \o tvgId \o "_" \o ToString(urlIndex),
                name        |-> name,
                tvgId       |-> tvgId,
                logo        |-> line.logo,
                group       |-> group,
                sourceIndex |-> urlIndex,
                streamInfo  |-> [urls |-> <<>>,
                                 tvg  |-> [id |-> tvgId, name |-> name]]]]

StreamLine(st, line, maxChannels) ==
    LET ch == [st.currentChannel EXCEPT
                 !.streamInfo.urls =
                     Append(@, [url     |-> line.url,
                                name    |-> st.currentChannel.name,
                                headers |-> "Mozilla/5.0"])]
        channels == Append(st.channels, ch)
    IN  [st EXCEPT
           !.channels = channels,
           !.currentChannel = NoChannel,
           !.stop = Len(channels) >= maxChannels]

\* LineStep with a metadata line committing the channel still pending
\* (which has no stream) before it starts the next one
LineStepCommitsPending(st, line, urlIndex, maxChannels) ==
    IF line.type = "extinf"
    THEN MetaLine(IF st.currentChannel.id # Null
                  THEN [st EXCEPT !.channels = Append(@, st.currentChannel)]
                  ELSE st,
                  line, urlIndex)
    ELSE IF line.type = "url" /\ st.currentChannel.id # Null
         THEN StreamLine(st, line, maxChannels)
         ELSE st

LineStep(st, line, urlIndex, maxChannels) ==
    IF line.type = "extinf" THEN MetaLine(st, line, urlIndex)
    ELSE IF line.type = "url" /\ st.currentChannel.id # Null
         THEN StreamLine(st, line, maxChannels)
         ELSE st

RECURSIVE LineLoop(_, _, _, _, _)
LineLoop(st, lines, i, urlIndex, maxChannels) ==
    IF i > Len(lines) \/ st.stop THEN st
    ELSE LineLoop(LineStep(st, lines[i], urlIndex, maxChannels),
                  lines, i + 1, urlIndex, maxChannels)

\* SourceStep with the catch leaving the source loop (the parse is given up
\* at the first source that fails)
SourceStepAbortsOnError(run, outcome, maxChannels) ==
    LET st0 == [channels |-> run.channels, genres |-> run.genres,
                currentChannel |-> NoChannel, stop |-> FALSE]
        st  == IF ~outcome.ok THEN st0
               ELSE LineLoop(st0, outcome.data, 1, run.urlIndex, maxChannels)
    IN  [run EXCEPT
           !.channels = st.channels,
           !.genres   = st.genres,
           !.urlIndex = IF outcome.ok THEN run.urlIndex + 1
                        ELSE Len(run.urlList),
           !.log      = Append(run.log, outcome)]

(***************************************************************************)
(* One turn of the source loop of parseM3U after axios.get has settled.    *)
(* run holds the locals of the parseM3U call; outcome is what axios.get    *)
(* gave: [ok |-> TRUE, data |-> the document's lines], or ok = FALSE when  *)
(* the request threw (the catch logs and the loop goes on with the next    *)
(* source).  log records what each fetch returned.                         *)
(***************************************************************************)
SourceStep(run, outcome, maxChannels) ==
    LET st0 == [channels |-> run.channels, genres |-> run.genres,
                currentChannel |-> NoChannel, stop |-> FALSE]
        st  == IF ~outcome.ok THEN st0
               ELSE LineLoop(st0, outcome.data, 1, run.urlIndex, maxChannels)
    IN  [run EXCEPT
           !.channels = st.channels,
           !.genres   = st.genres,
           !.urlIndex = run.urlIndex + 1,
           !.log      = Append(run.log, outcome)]

\* for (urlIndex = 0; urlIndex < urlList.length; ...): the loop has ended
RunDone(run) == run.urlIndex >= Len(run.urlList)

(***************************************************************************)
(* The decoding of the urls parameter at the head of parseM3U.  Each row   *)
(* of EncodedForms is a lexeme followed by its percent-encodings           *)
(* (encodeURIComponent applied once, twice).  The lexeme "%" is a percent  *)
(* sign that no two hexadecimal digits follow: decodeURIComponent throws   *)
(* a URIError on a string that holds one.                                  *)
(***************************************************************************)
EncodedForms ==
    << <<"http://a/list.m3u", "http%3A%2F%2Fa%2Flist.m3u",
         "http%253A%252F%252Fa%252Flist.m3u">>,
       <<",", "%2C", "%252C">>,
       <<" ", "%20", "%2520">>,
       <<"%", "%25", "%2525">>,
       <<"&", "%26", "%2526">>,
       <<"&amp;", "%26amp%3B", "%2526amp%253B">>,
       <<"epg=x", "epg%3Dx", "epg%253Dx">> >>

Encoded(x) == \E r \in DOMAIN EncodedForms : x \in Range(EncodedForms[r])

FormRow(x) == CHOOSE r \in DOMAIN EncodedForms : x \in Range(EncodedForms[r])

FormLevel(x) ==
    CHOOSE l \in DOMAIN EncodedForms[FormRow(x)] : EncodedForms[FormRow(x)][l] = x

\* decodeURIComponent on one lexeme that it can decode
DecodeLexeme(x) ==
    IF Encoded(x) /\ FormLevel(x) > 1
    THEN EncodedForms[FormRow(x)][FormLevel(x) - 1]
    ELSE x

\* decodedUrls.includes('%')
IncludesPercent(s) ==
    \E i \in DOMAIN s : s[i] = "%" \/ (Encoded(s[i]) /\ FormLevel(s[i]) > 1)

\* decodeURIComponent throws
Malformed(s) == \E i \in DOMAIN s : s[i] = "%"

decodeURIComponent(s) == [i \in DOMAIN s |-> DecodeLexeme(s[i])]

\* the while loop: threw tells whether decodeURIComponent threw, value is
\* decodedUrls when the loop was left
RECURSIVE DecodeLoop(_)
DecodeLoop(decodedUrls) ==
    IF ~IncludesPercent(decodedUrls)
    THEN [threw |-> FALSE, value |-> decodedUrls]
    ELSE IF Malformed(decodedUrls)
    THEN [threw |-> TRUE, value |-> decodedUrls]
    ELSE LET newDecoded == decodeURIComponent(decodedUrls)
         IN  IF newDecoded = decodedUrls
             THEN [threw |-> FALSE, value |-> decodedUrls]
             ELSE DecodeLoop(newDecoded)

\* .replace(/&#38;/g, '&').replace(/&amp;/g, '&')
Unescape(s) == [i \in DOMAIN s |-> IF s[i] = "&amp;" THEN "&" ELSE s[i]]

\* .replace(/&(epg|language|update_interval|epg_enabled)=[^,]*/g, ''):
\* from "&" followed by "epg=x" up to the next comma
RECURSIVE StripParams(_, _)
StripParams(s, inParam) ==
    IF s = <<>> THEN <<>>
    ELSE IF inParam
         THEN IF Head(s) = "," THEN <<",">> \o StripParams(Tail(s), FALSE)
              ELSE StripParams(Tail(s), TRUE)
         ELSE IF Head(s) = "&" /\ Len(s) >= 2 /\ s[2] = "epg=x"
              THEN StripParams(Tail(s), TRUE)
              ELSE <<Head(s)>> \o StripParams(Tail(s), FALSE)

\* decodedUrls after the try/catch: the catch puts back the raw urls
DecodedUrls(urls) ==
    LET loop == DecodeLoop(urls)
    IN  IF loop.threw THEN urls
        ELSE StripParams(Unescape(loop.value), FALSE)

(***************************************************************************)
(* const urlList = decodedUrls.split(',').map(u => u.trim())               *)
(*                                  .filter(u => u && u.startsWith('http')) *)
(* on a string given as a sequence of lexemes: "," separates, " " is       *)
(* white space, a lexeme of HttpBodies is text that starts with 'http'.    *)
(***************************************************************************)
HttpBodies ==
    {"http://a/list.m3u", "http%3A%2F%2Fa%2Flist.m3u",
     "http%253A%252F%252Fa%252Flist.m3u", "http://b/list.m3u"}

RECURSIVE SplitComma(_, _, _)
SplitComma(s, i, cur) ==
    IF i > Len(s) THEN <<cur>>
    ELSE IF s[i] = "," THEN <<cur>> \o SplitComma(s, i + 1, <<>>)
         ELSE SplitComma(s, i + 1, Append(cur, s[i]))

RECURSIVE TrimLeft(_)
TrimLeft(u) ==
    IF u # <<>> /\ Head(u) = " " THEN TrimLeft(Tail(u)) ELSE u

RECURSIVE TrimRight(_)
TrimRight(u) ==
    IF u # <<>> /\ u[Len(u)] = " " THEN TrimRight(SubSeq(u, 1, Len(u) - 1))
    ELSE u

Trim(u) == TrimRight(TrimLeft(u))

StartsWithHttp(u) == u # <<>> /\ Head(u) \in HttpBodies

RECURSIVE KeepHttp(_)
KeepHttp(us) ==
    IF us = <<>> THEN <<>>
    ELSE LET u == Trim(Head(us))
         IN  IF StartsWithHttp(u) THEN <<u>> \o KeepHttp(Tail(us))
             ELSE KeepHttp(Tail(us))

urlList(decodedUrls) == KeepHttp(SplitComma(decodedUrls, 1, <<>>))

\* NewRun with genres = new Set() in place of new Set(['Other Channels'])
NewRunEmptyGenres(urls) ==
    [urlList  |-> urlList(DecodedUrls(urls)),
     urlIndex |-> 0,
     channels |-> <<>>,
     genres   |-> <<>>,
     log      |-> <<>>]

\* the locals of a parseM3U call when its source loop is entered
NewRun(urls) ==
    [urlList  |-> urlList(DecodedUrls(urls)),
     urlIndex |-> 0,
     channels |-> <<>>,
     genres   |-> <<"Other Channels">>,
     log      |-> <<>>]

\* return { channels, genres: Array.from(genres) }
RunResult(run) == [channels |-> run.channels, genres |-> run.genres]

NoRun == [urlList |-> <<>>, urlIndex |-> 0, channels |-> <<>>,
          genres |-> <<>>, log |-> <<>>]

Fetched(doc) == [ok |-> TRUE, data |-> doc]
FetchError == [ok |-> FALSE, data |-> <<>>]

(***************************************************************************)
(* parseUpdateInterval.  intervalStr is a sequence of lexemes: ":" and     *)
(* runs of other characters; an absent parameter and '' are both <<>>.     *)
(* parseInt reads the leading digits of a part: NaN is [nan |-> TRUE].     *)
(***************************************************************************)
ParseIntLexeme(x) ==
    CASE x = "00" -> [nan |-> FALSE, val |-> 0]
      [] x = "01" -> [nan |-> FALSE, val |-> 1]
      [] x = "02" -> [nan |-> FALSE, val |-> 2]
      [] x = "04" -> [nan |-> FALSE, val |-> 4]
      [] x = "12" -> [nan |-> FALSE, val |-> 12]
      [] x = "30" -> [nan |-> FALSE, val |-> 30]
      [] x = "4x" -> [nan |-> FALSE, val |-> 4]
      [] OTHER    -> [nan |-> TRUE, val |-> 0]

parseInt(part) ==
    IF part = <<>> THEN [nan |-> TRUE, val |-> 0] ELSE ParseIntLexeme(part[1])

\* parseInt(x) || d
OrDefault(n, d) == IF n.nan \/ n.val = 0 THEN d ELSE n.val

RECURSIVE SplitColon(_, _, _)
SplitColon(s, i, cur) ==
    IF i > Len(s) THEN <<cur>>
    ELSE IF s[i] = ":" THEN <<cur>> \o SplitColon(s, i + 1, <<>>)
         ELSE SplitColon(s, i + 1, Append(cur, s[i]))

parseUpdateInterval(intervalStr) ==
    IF intervalStr = <<>> THEN 2 * 60 * 60 * 1000
    ELSE LET parts == SplitColon(intervalStr, 1, <<>>)
         IN  IF Len(parts) = 2
             THEN LET hours   == OrDefault(parseInt(parts[1]), 2)
                      minutes == OrDefault(parseInt(parts[2]), 0)
                  IN  (hours * 60 + minutes) * 60 * 1000
             ELSE 2 * 60 * 60 * 1000

(***************************************************************************)
(* The cache object and the manifest handler's decisions.  A timestamp     *)
(* that is null is 0 (the code tests it with !), m3uUrl = null is <<>>     *)
(* (the handler answers 400 to an empty m3u before it compares), and       *)
(* epgData = null is NullGuide.                                            *)
(***************************************************************************)
NullGuide == [isNull |-> TRUE]

InitCache ==
    [channels      |-> <<>>,
     genres        |-> <<>>,
     epgData       |-> NullGuide,
     lastUpdate    |-> 0,
     m3uUrl        |-> <<>>,
     maxChannels   |-> MaxChannels,
     epgLastUpdate |-> 0]

\* RefreshDue with the age test >= in place of >
RefreshDueAtInterval(c, m3u, now, updateInterval) ==
    \/ c.m3uUrl # m3u
    \/ c.lastUpdate = 0
    \/ now - c.lastUpdate >= updateInterval

\* the condition of "Update cache if needed"
RefreshDue(c, m3u, now, updateInterval) ==
    \/ c.m3uUrl # m3u
    \/ c.lastUpdate = 0
    \/ now - c.lastUpdate > updateInterval

\* StoreCatalog discarding the guide along with the old catalog
StoreCatalogDropsGuide(c, result, m3u, now) ==
    [c EXCEPT !.channels      = result.channels,
              !.genres        = result.genres,
              !.m3uUrl        = m3u,
              !.lastUpdate    = now,
              !.epgData       = NullGuide,
              !.epgLastUpdate = 0]

\* StoreCatalog without the assignment to cache.genres
StoreCatalogKeepsGenres(c, result, m3u, now) ==
    [c EXCEPT !.channels   = result.channels,
              !.m3uUrl     = m3u,
              !.lastUpdate = now]

\* the four assignments that follow await parseM3U
StoreCatalog(c, result, m3u, now) ==
    [c EXCEPT !.channels   = result.channels,
              !.genres     = result.genres,
              !.m3uUrl     = m3u,
              !.lastUpdate = now]

epgUpdateInterval == 6 * 60 * 60 * 1000

EpgDue(c, now) ==
    c.epgLastUpdate = 0 \/ now - c.epgLastUpdate > epgUpdateInterval

\* cache.epgData = await Promise.race(...); cache.epgLastUpdate = Date.now()
StoreGuide(c, guide, now) ==
    [c EXCEPT !.epgData = guide, !.epgLastUpdate = now]

\* the catch of the race: cache.epgData = null
DropGuide(c) == [c EXCEPT !.epgData = NullGuide]

(***************************************************************************)
(* parseEPG.  The call is followed from its start to the last event of    *)
(* its stream: pc is where it stands,                                      *)
(*   head    awaiting axios.head                                           *)
(*   get     awaiting axios.get                                            *)
(*   stream  the promise's executor has run: the listeners and the 45 s    *)
(*           timer are set                                                 *)
(*   xml     the 'end' listener awaits parseStringPromise                  *)
(*   over    the call's own code has nothing left to run                   *)
(* result is the value parseEPG's promise settles to: resolve() and return *)
(* settle it, and a promise that is settled ignores every later resolve(). *)
(* A document is the sequence of its chunks' lengths, with closedAt the    *)
(* chunk in which the root element closes (0: it never closes); what       *)
(* follows that chunk is white space or comments.                          *)
(***************************************************************************)
MB == 1024 * 1024

\* if (contentLength > 100 * 1024 * 1024)
headCeiling == 100 * MB

\* const maxSize = 50 * 1024 * 1024
maxSize == 50 * MB

Unsettled == [settled |-> FALSE, value |-> NullGuide]

NoLoad ==
    [pc |-> "none", url |-> "", requests |-> <<>>, contentLength |-> 0,
     doc |-> [chunks |-> <<>>, closedAt |-> 0], next |-> 1,
     chunks |-> <<>>, totalSize |-> 0, destroyed |-> FALSE, ended |-> FALSE,
     timer |-> "unset", result |-> Unsettled]

\* Resolve on a promise that a later resolve() would settle again
ResolveOverwrites(e, v) ==
    [e EXCEPT !.result = [settled |-> TRUE, value |-> v]]

\* resolve(v), or return v from the async function
Resolve(e, v) ==
    IF e.result.settled THEN e
    ELSE [e EXCEPT !.result = [settled |-> TRUE, value |-> v]]

\* parseEPG(epgUrl) up to its first await
StartLoad(epgUrl) ==
    IF epgUrl = ""
    THEN Resolve([NoLoad EXCEPT !.pc = "over"], NullGuide)
    ELSE [NoLoad EXCEPT !.pc = "head", !.url = epgUrl,
                        !.requests = <<"HEAD">>]

\* the content-length header of a response: absent, or a number's digits
NoHeader == [present |-> FALSE, value |-> 0]
Header(n) == [present |-> TRUE, value |-> n]

\* parseInt(headResponse.headers['content-length'] || '0')
ContentLength(header) == IF header.present THEN header.value ELSE 0

HeadOk(header) == [ok |-> TRUE, header |-> header]
HeadError == [ok |-> FALSE, header |-> NoHeader]

\* AfterHead without the test of the content length
AfterHeadAlwaysGets(e, outcome) ==
    IF ~outcome.ok
    THEN Resolve([e EXCEPT !.pc = "over"], NullGuide)
    ELSE [e EXCEPT !.pc = "get",
                   !.contentLength = ContentLength(outcome.header),
                   !.requests = Append(@, "GET")]

\* axios.head has settled
AfterHead(e, outcome) ==
    IF ~outcome.ok
    THEN Resolve([e EXCEPT !.pc = "over"], NullGuide)
    ELSE LET contentLength == ContentLength(outcome.header)
         IN  IF contentLength > headCeiling
             THEN Resolve([e EXCEPT !.pc = "over",
                                    !.contentLength = contentLength],
                          NullGuide)
             ELSE [e EXCEPT !.pc = "get",
                            !.contentLength = contentLength,
                            !.requests = Append(@, "GET")]

GetOk(doc) == [ok |-> TRUE, doc |-> doc]
GetError == [ok |-> FALSE, doc |-> [chunks |-> <<>>, closedAt |-> 0]]

\* axios.get has settled: on success the executor of new Promise runs
AfterGet(e, outcome) ==
    IF ~outcome.ok
    THEN Resolve([e EXCEPT !.pc = "over"], NullGuide)
    ELSE [e EXCEPT !.pc = "stream", !.doc = outcome.doc,
                   !.timer = "armed"]

\* stream.on('data', ...) for the next chunk of the document
OnData(e) ==
    LET length    == e.doc.chunks[e.next]
        totalSize == e.totalSize + length
    IN  IF totalSize > maxSize
        THEN [e EXCEPT !.next = @ + 1, !.totalSize = totalSize,
                       !.destroyed = TRUE]
        ELSE [e EXCEPT !.next = @ + 1, !.totalSize = totalSize,
                       !.chunks = Append(@, length)]

\* stream.on('end', ...) up to its await, or to its end when no chunk was
\* kept
OnEnd(e) ==
    IF e.chunks = <<>>
    THEN Resolve([e EXCEPT !.pc = "over", !.ended = TRUE], NullGuide)
    ELSE [e EXCEPT !.pc = "xml", !.ended = TRUE]

\* parseStringPromise(Buffer.concat(chunks).toString()): the text of the
\* first n chunks is a document when the root element closes within it
XmlWellFormed(doc, n) == doc.closedAt # 0 /\ n >= doc.closedAt

ParsedGuide(doc, n) ==
    [tv |-> [programme |-> [kind |-> "absent", items |-> <<>>]],
     chunks |-> n]

\* the rest of the 'end' listener, after parseStringPromise has settled
OnXml(e) ==
    IF XmlWellFormed(e.doc, Len(e.chunks))
    THEN Resolve([e EXCEPT !.pc = "over", !.chunks = <<>>],
                 ParsedGuide(e.doc, Len(e.chunks)))
    ELSE Resolve([e EXCEPT !.pc = "over"], NullGuide)

\* stream.on('error', ...)
OnError(e) == Resolve([e EXCEPT !.pc = "over"], NullGuide)

\* the callback of setTimeout(..., 45000)
OnTimer(e) ==
    Resolve([e EXCEPT !.timer = "fired", !.destroyed = TRUE], NullGuide)

(***************************************************************************)
(* Programme lookup.  An XMLTV programme element is what the lookups read  *)
(* of it: whether it has attributes, its channel, start and stop           *)
(* attributes and the text of its title.  A date attribute is a string     *)
(* that starts with 14 digits (t: the second they name, in local time) or  *)
(* one that does not.  xml2js turns the document into objects whose shape  *)
(* depends on the options: program.$ holds the attributes unless           *)
(* mergeAttrs is set, which puts them on the element itself; with          *)
(* explicitArray false a single child is the object itself instead of an   *)
(* array of one, and a text child is a string instead of an array.         *)
(***************************************************************************)
DateString(t) == [match |-> TRUE, t |-> t]
BadDate == [match |-> FALSE, t |-> 0]

XmlProgramme(channel, start, stop, title) ==
    [attrs |-> TRUE, channel |-> channel, start |-> start, stop |-> stop,
     title |-> title]

\* a programme element without attributes
BareProgramme(title) ==
    [attrs |-> FALSE, channel |-> "", start |-> BadDate, stop |-> BadDate,
     title |-> title]

NoDollar == [present |-> FALSE]

\* parseStringPromise(xml, { explicitArray: false, mergeAttrs: true, ... })
\* as parseEPG calls it
ParseMerged(xml) ==
    LET item(x) == [dollar |-> NoDollar, attrs |-> x.attrs,
                    channel |-> x.channel, start |-> x.start,
                    stop |-> x.stop,
                    title |-> [array |-> FALSE, text |-> x.title]]
    IN  [tv |-> [programme |->
            [kind  |-> CASE Len(xml) = 0 -> "absent"
                         [] Len(xml) = 1 -> "object"
                         [] OTHER        -> "array",
             items |-> [i \in 1..Len(xml) |-> item(xml[i])]]]]

\* parseStringPromise(xml) with the default options, as loadEPG calls it
ParseDefault(xml) ==
    LET item(x) == [dollar |-> IF x.attrs
                               THEN [present |-> TRUE, channel |-> x.channel,
                                     start |-> x.start, stop |-> x.stop]
                               ELSE NoDollar,
                    title |-> [array |-> TRUE, text |-> x.title]]
    IN  [tv |-> [programme |->
            [kind  |-> IF Len(xml) = 0 THEN "absent" ELSE "array",
             items |-> [i \in 1..Len(xml) |-> item(xml[i])]]]]

\* toLowerCase().replace(/[^\w.]/g, '') on the identifiers the model uses
Normalize(id) ==
    CASE id = "BBC 1" -> "bbc1"
      [] id = "CNN"   -> "cnn"
      [] OTHER        -> id

NullDate == [isNull |-> TRUE, valid |-> FALSE, time |-> 0]

\* new Date(y, m, d, h, min, s).getTime() for the second t, in milliseconds
DateOf(t) == [isNull |-> FALSE, valid |-> TRUE, time |-> t * 1000]

\* parseEPGDate of indexnew.js: null unless the string starts with 14 digits
parseEPGDate(dateString) ==
    IF ~dateString.match THEN NullDate ELSE DateOf(dateString.t)

\* parseEPGDate of SimpleEPGManager: parseInt of the substrings, whatever
\* they hold; without 14 digits the Date is invalid (its time is NaN)
ManagerParseEPGDate(dateString) ==
    IF ~dateString.match
    THEN [isNull |-> FALSE, valid |-> FALSE, time |-> 0]
    ELSE DateOf(dateString.t)

\* start && stop && start <= now && stop >= now (a comparison with an
\* invalid Date is false)
InWindow(start, stop, now) ==
    /\ ~start.isNull /\ ~stop.isNull
    /\ start.valid /\ stop.valid
    /\ start.time <= now /\ stop.time >= now

NoProgram == [found |-> FALSE]
Thrown == [found |-> FALSE, thrown |-> "TypeError"]

\* getTextContent
getTextContent(element) == element.text

RECURSIVE ScanProgrammes(_, _, _, _)
ScanProgrammes(programmes, i, normalizedId, now) ==
    IF i > Len(programmes) THEN NoProgram
    ELSE LET program == programmes[i]
         IN  IF ~program.dollar.present
             THEN ScanProgrammes(programmes, i + 1, normalizedId, now)
             ELSE IF Normalize(program.dollar.channel) = normalizedId
                     /\ InWindow(parseEPGDate(program.dollar.start),
                                 parseEPGDate(program.dollar.stop), now)
                  THEN [found |-> TRUE,
                        title |-> getTextContent(program.title),
                        start |-> parseEPGDate(program.dollar.start).time,
                        stop  |-> parseEPGDate(program.dollar.stop).time]
                  ELSE ScanProgrammes(programmes, i + 1, normalizedId, now)

\* getCurrentProgram, now being new Date()
getCurrentProgram(channelId, epgData, now) ==
    IF epgData = NullGuide THEN NoProgram
    ELSE IF epgData.tv.programme.kind = "absent" THEN NoProgram
    ELSE ScanProgrammes(epgData.tv.programme.items, 1,
                        Normalize(channelId), now)

RECURSIVE ManagerScan(_, _, _, _)
ManagerScan(programmes, i, normalizedId, now) ==
    IF i > Len(programmes) THEN NoProgram
    ELSE LET program == programmes[i]
         IN  IF ~program.dollar.present THEN Thrown
             ELSE IF Normalize(program.dollar.channel) = normalizedId
                     /\ InWindow(ManagerParseEPGDate(program.dollar.start),
                                 ManagerParseEPGDate(program.dollar.stop),
                                 now)
                  THEN [found |-> TRUE,
                        title |-> program.title.text,
                        start |-> ManagerParseEPGDate(program.dollar.start).time,
                        stop  |-> ManagerParseEPGDate(program.dollar.stop).time]
                  ELSE ManagerScan(programmes, i + 1, normalizedId, now)

\* SimpleEPGManager.getProgramForChannel on this.epgData
getProgramForChannel(channelId, epgData, now) ==
    IF epgData = NullGuide THEN NoProgram
    ELSE IF epgData.tv.programme.kind = "absent" THEN NoProgram
    ELSE ManagerScan(epgData.tv.programme.items, 1,
                     Normalize(channelId), now)

\* no call of a synchronous function
NoCall == [fn |-> "none"]

(***************************************************************************)
(* What the network serves and what clients ask.                           *)
(***************************************************************************)
UrlA == <<"http://a/list.m3u">>
UrlB == <<"http://b/list.m3u">>

\* two playlist keys (req.query.m3u): two sources, and one source followed
\* by an entry that is not an http URL
Key1 == <<"http://a/list.m3u", ",", " ", "http://b/list.m3u">>
Key2 == <<"http://b/list.m3u", ",", "ftp://c/list.m3u">>
Keys == {Key1, Key2}

BBC   == ExtInf("BBC One", "bbc1", Null, "News")
CNN   == ExtInf("CNN", Null, Null, Null)
BBC2  == ExtInf("BBC One", "bbc1", "http://x/logo.png", "Sport")
S1    == UrlLine("http://x/stream1")
S2    == UrlLine("rtmp://x/stream2")

\* the document a source holds when its fetch succeeds
Served(url) ==
    IF url = UrlA THEN {<<BBC, S1, OtherLine, CNN, S2>>} ELSE {<<BBC2, S2>>}

FetchOutcomes(url) == {FetchError} \cup {Fetched(d) : d \in Served(url)}

Guide1 ==
    ParseMerged(<<XmlProgramme("bbc1", DateString(1), DateString(2), "A")>>)

Guide2 ==
    ParseMerged(<<XmlProgramme("cnn", DateString(1), DateString(2), "B")>>)

\* two guide URLs (req.query.epg), each serving its own document
GuideE == "http://e/guide.xml"
GuideF == "http://f/guide.xml"
GuideUrls == {GuideE, GuideF}

GuideServed(url) == IF url = GuideE THEN Guide1 ELSE Guide2

\* what the promise of parseEPG(url) may resolve to: the document parsed,
\* or null
EpgOutcomes(url) == {NullGuide, GuideServed(url)}

Queries ==
    [m3u             : Keys \cup {<<>>},
     update_interval : {<<>>, <<"04", ":", "00">>},
     epg_enabled     : {"true", ""},
     epg             : {GuideE}]

\* guide-enabled requests for one playlist key that name either guide URL
GuideQueries ==
    [m3u             : {Key2},
     update_interval : {<<>>},
     epg_enabled     : {"true"},
     epg             : GuideUrls]

Extras == [search : {Null}, genre : {"News"}, skip : {0}]

StreamIds == {"tv|bbc1_0"}

(***************************************************************************)
(* req is the bag of the handlers that are suspended at an await (two      *)
(* requests may be at the same place with the same locals).  pc is where   *)
(* a handler stands:                                                       *)
(*   fetch  in parseM3U, awaiting axios.get of source run.urlIndex         *)
(*   epg    awaiting Promise.race([parseEPG(..), 30 s timeout])            *)
(* m3u is req.query.m3u; epg is req.query.epg when the guide is enabled    *)
(* and '' when it is not; run holds the locals of the parseM3U call.       *)
(* A handler that has answered is gone from the bag.                       *)
(***************************************************************************)
Handler(m3u, epgUrl) ==
    [pc |-> "start", m3u |-> m3u, epg |-> epgUrl, run |-> NoRun]

Handlers == BagToSet(req)

\* the suspended handlers other than h
Others(h) == req (-) SetToBag({h})

\* (req.query.epg_enabled === 'true' || ... === true) && req.query.epg
EpgWanted(q) == q.epg_enabled = "true" /\ q.epg # ""

NoResponse == [kind |-> "none", status |-> 0, body |-> <<>>]

\* res.json(manifest): the genre options are cache.genres as it is then
ManifestResponse(c) ==
    [kind |-> "manifest", status |-> 200, body |-> c.genres]

NoPublished == [m3u |-> <<>>, channels |-> <<>>, genres |-> <<>>]

(***************************************************************************)
(* The manifest handler from "Load EPG if enabled" on, run when the        *)
(* playlist part is over: c is the cache as that part left it, rest the    *)
(* other suspended handlers.                                               *)
(***************************************************************************)
ContinueManifest(rest, c, slot) ==
    IF slot.epg # "" /\ EpgDue(c, clock)
    THEN /\ cache' = c
         /\ req' = rest (+) SetToBag({[slot EXCEPT !.pc = "epg",
                                                   !.run = NoRun]})
         /\ sent' = sent
    ELSE /\ cache' = c
         /\ req' = rest
         /\ sent' = ManifestResponse(c)

\* parseM3U has returned: store its result, then go on with the handler
FinishRefresh(rest, slot) ==
    /\ published' = [m3u |-> slot.m3u, channels |-> slot.run.channels,
                     genres |-> slot.run.genres]
    /\ ContinueManifest(rest,
           StoreCatalog(cache, RunResult(slot.run), slot.m3u, clock), slot)

\* GET /manifest.json arrives
ManifestArrive(q) ==
    /\ BagCardinality(req) < MaxReqs
    /\ UNCHANGED <<clock, parse, epg, calc>>
    /\ LET slot == Handler(q.m3u, IF EpgWanted(q) THEN q.epg ELSE "")
       IN  IF q.m3u = <<>>
           THEN /\ sent' = [kind |-> "manifest", status |-> 400,
                            body |-> <<>>]
                /\ UNCHANGED <<cache, req, published>>
           ELSE IF RefreshDue(cache, q.m3u, clock,
                              parseUpdateInterval(q.update_interval))
           THEN LET started == [slot EXCEPT !.run = NewRun(q.m3u),
                                            !.pc = "fetch"]
                IN  IF RunDone(started.run)
                    THEN FinishRefresh(req, started)
                    ELSE /\ req' = req (+) SetToBag({started})
                         /\ UNCHANGED <<cache, sent, published>>
           ELSE /\ ContinueManifest(req, cache, slot)
                /\ UNCHANGED published

\* the axios.get of the current source of handler h settles
FetchSettle(h, outcome) ==
    /\ BagIn(h, req)
    /\ h.pc = "fetch"
    /\ outcome \in FetchOutcomes(h.run.urlList[h.run.urlIndex + 1])
    /\ UNCHANGED <<clock, parse, epg, calc>>
    /\ LET slot == [h EXCEPT
                       !.run = SourceStep(@, outcome, cache.maxChannels)]
       IN  IF RunDone(slot.run)
           THEN FinishRefresh(Others(h), slot)
           ELSE /\ req' = Others(h) (+) SetToBag({slot})
                /\ UNCHANGED <<cache, sent, published>>

\* parseEPG settles before the handler's 30 s timer
EpgSettle(h, guide) ==
    /\ BagIn(h, req)
    /\ h.pc = "epg"
    /\ guide \in EpgOutcomes(h.epg)
    /\ cache' = StoreGuide(cache, guide, clock)
    /\ sent' = ManifestResponse(cache')
    /\ req' = Others(h)
    /\ UNCHANGED <<clock, published, parse, epg, calc>>

\* the handler's 30 s timer fires first
EpgTimeout(h) ==
    /\ BagIn(h, req)
    /\ h.pc = "epg"
    /\ cache' = DropGuide(cache)
    /\ sent' = ManifestResponse(cache')
    /\ req' = Others(h)
    /\ UNCHANGED <<clock, published, parse, epg, calc>>

(***************************************************************************)
(* GET /catalog/:type/:id/:extra?.json and GET /stream/:type/:id.json run  *)
(* to their answer without an await.  extra is the decoded extra part.     *)
(* Of each meta the model keeps the id, the name and the genres.           *)
(***************************************************************************)
LowerIncludes(name, term) == term = "bbc" /\ name = "BBC One"

CatalogMetas(c, extra) ==
    LET bySearch == IF extra.search # Null
                    THEN SelectSeq(c.channels,
                             LAMBDA ch : LowerIncludes(ch.name, extra.search))
                    ELSE c.channels
        byGenre  == IF extra.genre # Null /\ extra.genre # "Other Channels"
                    THEN SelectSeq(bySearch,
                             LAMBDA ch : ch.group = extra.genre)
                    ELSE bySearch
        paged    == SubSeq(byGenre, extra.skip + 1,
                           IF Len(byGenre) < extra.skip + 100
                           THEN Len(byGenre) ELSE extra.skip + 100)
    IN  [i \in 1..Len(paged) |->
            [id |-> paged[i].id, name |-> paged[i].name,
             genres |-> <<paged[i].group>>]]

CatalogArrive(extra) ==
    /\ sent' = [kind |-> "catalog", status |-> 200,
                body |-> CatalogMetas(cache, extra)]
    /\ UNCHANGED <<cache, clock, req, published, parse, epg, calc>>

StreamList(c, id) ==
    LET hits == SelectSeq(c.channels, LAMBDA ch : ch.id = id)
    IN  IF hits = <<>> THEN <<>>
        ELSE [i \in 1..Len(hits[1].streamInfo.urls) |->
                 [title |-> hits[1].name,
                  url   |-> hits[1].streamInfo.urls[i].url]]

StreamArrive(id) ==
    /\ sent' = [kind |-> "stream", status |-> 200,
                body |-> StreamList(cache, id)]
    /\ UNCHANGED <<cache, clock, req, published, parse, epg, calc>>

\* Time passes.  Every await of a handler is bounded by a timeout of at
\* most 30 s (axios timeout: 30000, the 30 s race), so at the clock's
\* resolution of TickStep no handler is in flight across a tick.
Tick ==
    /\ clock < Hour + MaxClock * TickStep
    /\ req = EmptyBag
    /\ clock' = clock + TickStep
    /\ UNCHANGED <<cache, req, sent, published, parse, epg, calc>>

Init ==
    /\ cache = InitCache
    /\ clock = Hour
    /\ req = EmptyBag
    /\ sent = NoResponse
    /\ published = NoPublished
    /\ parse = NoRun
    /\ epg = NoLoad
    /\ calc = NoCall

Next ==
    \/ \E q \in Queries : ManifestArrive(q)
    \/ \E h \in Handlers, o \in FetchOutcomes(UrlA) \cup FetchOutcomes(UrlB) :
           FetchSettle(h, o)
    \/ \E h \in Handlers, g \in EpgOutcomes(GuideE) : EpgSettle(h, g)
    \/ \E h \in Handlers : EpgTimeout(h)
    \/ \E e \in Extras : CatalogArrive(e)
    \/ \E id \in StreamIds : StreamArrive(id)
    \/ Tick

Spec == Init /\ [][Next]_vars

(***************************************************************************)
(* The manifest handler under guide-enabled requests that name either of   *)
(* two guide URLs.                                                         *)
(***************************************************************************)
NextGuide ==
    \/ \E q \in GuideQueries : ManifestArrive(q)
    \/ \E h \in Handlers, o \in FetchOutcomes(UrlB) : FetchSettle(h, o)
    \/ \E h \in Handlers, g \in EpgOutcomes(GuideE) \cup EpgOutcomes(GuideF) :
           EpgSettle(h, g)
    \/ \E h \in Handlers : EpgTimeout(h)
    \/ Tick

SpecGuide == Init /\ [][NextGuide]_vars

(***************************************************************************)
(* parseM3U on its own: one run over a drawn key and a drawn channel cap,   *)
(* each source answering with any document of at most MaxLines lines, or   *)
(* failing.                                                                *)
(***************************************************************************)
LineAlphabet == {BBC, CNN, S1, OtherLine}

\* documents of two complete entries, the tvg-id repeated or not
TwoEntryDocs == {<<a, S1, b, S2>> : a, b \in {BBC, CNN}}

Docs == UNION {[1..n -> LineAlphabet] : n \in 0..MaxLines} \cup TwoEntryDocs

ParseKeys == {UrlA, Key1}

InitParse ==
    /\ \E m \in 1..MaxChannels : cache = [InitCache EXCEPT !.maxChannels = m]
    /\ clock = Hour
    /\ req = EmptyBag
    /\ sent = NoResponse
    /\ published = NoPublished
    /\ \E k \in ParseKeys : parse = NewRun(k)
    /\ epg = NoLoad
    /\ calc = NoCall

ParseFetch(outcome) ==
    /\ ~RunDone(parse)
    /\ parse' = SourceStep(parse, outcome, cache.maxChannels)
    /\ UNCHANGED <<cache, clock, req, sent, published, epg, calc>>

NextParse ==
    \/ \E d \in Docs : ParseFetch(Fetched(d))
    \/ ParseFetch(FetchError)

SpecParse == InitParse /\ [][NextParse]_vars

(***************************************************************************)
(* parseEPG on its own: one call, the HEAD and GET requests answering in   *)
(* any way, the stream delivering any document of at most MaxChunks chunks *)
(* and the events coming in any order the stream allows: 'data' in the     *)
(* document's order, 'end' once the last chunk was delivered (also when    *)
(* the listener of that chunk has called destroy(): the end of the stream  *)
(* was then already under way), 'error' at any time before 'end', the      *)
(* timer at any time.                                                      *)
(***************************************************************************)
MaxChunks == 3

ChunkLengths == {1, 25 * MB, 50 * MB}

EpgDocs ==
    UNION {{[chunks |-> c, closedAt |-> k] : k \in 0..Len(c)} :
              c \in UNION {[1..n -> ChunkLengths] : n \in 0..MaxChunks}}

HeadOutcomes ==
    {HeadError} \cup
        {HeadOk(h) : h \in {NoHeader, Header(1), Header(headCeiling),
                             Header(headCeiling + 1)}}

EpgUrls == {"", "http://e/guide.xml"}

InitEpg ==
    /\ cache = InitCache
    /\ clock = Hour
    /\ req = EmptyBag
    /\ sent = NoResponse
    /\ published = NoPublished
    /\ parse = NoRun
    /\ \E u \in EpgUrls : epg = StartLoad(u)
    /\ calc = NoCall

EpgHeadSettle(outcome) ==
    /\ epg.pc = "head"
    /\ epg' = AfterHead(epg, outcome)
    /\ UNCHANGED <<cache, clock, req, sent, published, parse, calc>>

EpgGetSettle(outcome) ==
    /\ epg.pc = "get"
    /\ epg' = AfterGet(epg, outcome)
    /\ UNCHANGED <<cache, clock, req, sent, published, parse, calc>>

EpgData ==
    /\ epg.pc = "stream"
    /\ epg.next <= Len(epg.doc.chunks)
    /\ epg' = OnData(epg)
    /\ UNCHANGED <<cache, clock, req, sent, published, parse, calc>>

EpgEnd ==
    /\ epg.pc = "stream"
    /\ epg.next > Len(epg.doc.chunks)
    /\ epg' = OnEnd(epg)
    /\ UNCHANGED <<cache, clock, req, sent, published, parse, calc>>

EpgXmlSettle ==
    /\ epg.pc = "xml"
    /\ epg' = OnXml(epg)
    /\ UNCHANGED <<cache, clock, req, sent, published, parse, calc>>

EpgStreamError ==
    /\ epg.pc = "stream"
    /\ epg' = OnError(epg)
    /\ UNCHANGED <<cache, clock, req, sent, published, parse, calc>>

EpgTimer ==
    /\ epg.timer = "armed"
    /\ epg' = OnTimer(epg)
    /\ UNCHANGED <<cache, clock, req, sent, published, parse, calc>>

NextEpg ==
    \/ \E o \in HeadOutcomes : EpgHeadSettle(o)
    \/ \E d \in EpgDocs : EpgGetSettle(GetOk(d))
    \/ EpgGetSettle(GetError)
    \/ EpgData
    \/ EpgEnd
    \/ EpgXmlSettle
    \/ EpgStreamError
    \/ EpgTimer

SpecEpg == InitEpg /\ [][NextEpg]_vars

(***************************************************************************)
(* The programme lookups on their own: a guide document of at most         *)
(* MaxEntries programmes is parsed as each module parses it and looked up  *)
(* for a channel at an instant.                                            *)
(***************************************************************************)
MaxEntries == 2

XmlProgrammes ==
    {XmlProgramme(c, DateString(a), DateString(b), t) :
        c \in {"BBC 1", "cnn"}, a \in {1, 2}, b \in {2, 3}, t \in {"A", "B"}}
    \cup {XmlProgramme("bbc1", BadDate, DateString(3), "A"),
          BareProgramme("B")}

XmlGuides == UNION {[1..n -> XmlProgrammes] : n \in 0..MaxEntries}

\* instants, in milliseconds: on and between the seconds the dates name
Instants == {500, 1000, 1500, 2000, 2500, 3000, 3500}

InitLookup ==
    /\ cache = InitCache
    /\ clock = Hour
    /\ req = EmptyBag
    /\ sent = NoResponse
    /\ published = NoPublished
    /\ parse = NoRun
    /\ epg = NoLoad
    /\ \E id \in {"bbc1", "CNN"}, xml \in XmlGuides, now \in Instants :
           calc = [fn |-> "none", channelId |-> id, xml |-> xml,
                   now |-> now, done |-> FALSE, result |-> NoProgram]

\* the catalog handler's lookup in a guide that parseEPG has loaded
CallGetCurrentProgram ==
    /\ ~calc.done
    /\ calc' = [calc EXCEPT
                   !.fn = "getCurrentProgram",
                   !.done = TRUE,
                   !.result = getCurrentProgram(calc.channelId,
                                  ParseMerged(calc.xml), calc.now)]
    /\ UNCHANGED <<cache, clock, req, sent, published, parse, epg>>

\* the manager's lookup in a guide that loadEPG has loaded
CallGetProgramForChannel ==
    /\ ~calc.done
    /\ calc' = [calc EXCEPT
                   !.fn = "getProgramForChannel",
                   !.done = TRUE,
                   !.result = getProgramForChannel(calc.channelId,
                                  ParseDefault(calc.xml), calc.now)]
    /\ UNCHANGED <<cache, clock, req, sent, published, parse, epg>>

NextLookup == CallGetCurrentProgram \/ CallGetProgramForChannel

SpecLookup == InitLookup /\ [][NextLookup]_vars

(***************************************************************************)
(* parseUpdateInterval on its own, on every string of at most MaxParts     *)
(* parts joined by ":", a part being empty, two digits, letters ("ab") or  *)
(* a digit followed by a letter ("4x").                                    *)
(***************************************************************************)
MaxParts == 3

TwoDigits == {"00", "02", "04", "12", "30"}

PartChoices == {<<>>} \cup {<<x>> : x \in TwoDigits \cup {"ab", "4x"}}

RECURSIVE JoinColon(_)
JoinColon(ps) ==
    IF Len(ps) = 1 THEN ps[1]
    ELSE ps[1] \o <<":">> \o JoinColon(Tail(ps))

IntervalParts == UNION {[1..n -> PartChoices] : n \in 1..MaxParts}

InitInterval ==
    /\ cache = InitCache
    /\ clock = Hour
    /\ req = EmptyBag
    /\ sent = NoResponse
    /\ published = NoPublished
    /\ parse = NoRun
    /\ epg = NoLoad
    /\ \E ps \in IntervalParts :
           calc = [fn |-> "none", parts |-> ps, input |-> JoinColon(ps),
                   done |-> FALSE, result |-> 0]

CallParseUpdateInterval ==
    /\ ~calc.done
    /\ calc' = [calc EXCEPT !.fn = "parseUpdateInterval",
                            !.done = TRUE,
                            !.result = parseUpdateInterval(calc.input)]
    /\ UNCHANGED <<cache, clock, req, sent, published, parse, epg>>

NextInterval == CallParseUpdateInterval

SpecInterval == InitInterval /\ [][NextInterval]_vars

(***************************************************************************)
(* The head of parseM3U on its own: a list of at most MaxTokens lexemes,   *)
(* percent-encoded zero, one or two times, is turned into urlList.         *)
(***************************************************************************)
MaxTokens == 3

PlainLexemes == {EncodedForms[r][1] : r \in DOMAIN EncodedForms}

PlainLists == UNION {[1..n -> PlainLexemes] : n \in 0..MaxTokens}

\* encodeURIComponent applied to every lexeme
EncodeOnce(s) ==
    [i \in DOMAIN s |-> EncodedForms[FormRow(s[i])][FormLevel(s[i]) + 1]]

EncodeTimes(s, n) ==
    CASE n = 0 -> s
      [] n = 1 -> EncodeOnce(s)
      [] OTHER -> EncodeOnce(EncodeOnce(s))

InitNormalize ==
    /\ cache = InitCache
    /\ clock = Hour
    /\ req = EmptyBag
    /\ sent = NoResponse
    /\ published = NoPublished
    /\ parse = NoRun
    /\ epg = NoLoad
    /\ \E plain \in PlainLists, n \in 0..2 :
           calc = [fn |-> "none", plain |-> plain, levels |-> n,
                   input |-> EncodeTimes(plain, n),
                   done |-> FALSE, result |-> <<>>]

\* parseM3U(urls) up to its source loop
CallUrlList ==
    /\ ~calc.done
    /\ calc' = [calc EXCEPT !.fn = "urlList",
                            !.done = TRUE,
                            !.result = NewRun(calc.input).urlList]
    /\ UNCHANGED <<cache, clock, req, sent, published, parse, epg>>

NextNormalize == CallUrlList

SpecNormalize == InitNormalize /\ [][NextNormalize]_vars

(***************************************************************************)
(* The claims.                                                             *)
(***************************************************************************)
\* the handlers suspended inside parseM3U
Fetching == {h \in Handlers : h.pc = "fetch"}

\* this step is the end of a parseM3U run of handler h none of whose
\* sources could be fetched
FailedRefreshEnds(h) ==
    /\ h \in Fetching
    /\ h.run.urlIndex + 1 = Len(h.run.urlList)
    /\ \A i \in DOMAIN h.run.log : ~h.run.log[i].ok
    /\ FetchSettle(h, FetchError)

\* this step is the end of a guide load of handler h that failed: parseEPG
\* gave null, or the handler's timer fired first
GuideRefreshFails(h) == EpgSettle(h, NullGuide) \/ EpgTimeout(h)

(* C1: at most one parseM3U run per playlist key is in flight at any time:
   no two suspended handlers are inside parseM3U for the same key. *)
C1_OneRefreshPerKey ==
    \A h \in Fetching :
        /\ CopiesIn(h, req) = 1
        /\ \A g \in Fetching : g # h => g.m3u # h.m3u

(* C2: a playlist refresh all of whose source fetches fail, ending while a
   non-empty catalog is cached, leaves cache.channels and cache.genres as
   they were. *)
C2_FailedRefreshKeepsCatalog ==
    [][\A h \in Handlers :
          (FailedRefreshEnds(h) /\ cache.channels # <<>>)
              => (cache'.channels = cache.channels /\ cache'.genres = cache.genres)
      ]_vars

(* C3: a guide refresh that fails (parseEPG gives null, or the 30 s timer
   fires first), attempted while a guide loaded at an earlier time is
   cached, leaves cache.epgData as it was. *)
C3_FailedGuideRefreshKeepsGuide ==
    [][\A h \in Handlers :
          (/\ GuideRefreshFails(h)
           /\ cache.epgData # NullGuide
           /\ cache.epgLastUpdate # 0
           /\ cache.epgLastUpdate < clock)
              => cache'.epgData = cache.epgData
      ]_vars

(* C4: right after a failed refresh attempt the resource is stale: a read
   for the same key that arrives next, at the same instant and with any
   update interval, finds the playlist refresh due, and a guide-enabled read
   finds the guide refresh due. *)
C4_FailedRefreshLeavesStale ==
    [][\A h \in Handlers :
          /\ FailedRefreshEnds(h) =>
                \A q \in Queries :
                    q.m3u = h.m3u =>
                        RefreshDue(cache', q.m3u, clock',
                                   parseUpdateInterval(q.update_interval))
          /\ GuideRefreshFails(h) => EpgDue(cache', clock')
      ]_vars

(* C5: a manifest request (with no guide to load) that arrives for the
   cached, already fetched key while a refresh of that key is in flight is
   answered in the same step from the cache as it is, without suspending;
   catalog and stream requests never suspend. *)
C5_ServeStaleWhileRevalidate ==
    [][/\ \A q \in Queries :
            (/\ ManifestArrive(q)
             /\ q.m3u # <<>>
             /\ ~EpgWanted(q)
             /\ cache.lastUpdate # 0
             /\ cache.m3uUrl = q.m3u
             /\ \E h \in Fetching : h.m3u = q.m3u)
                => (req' = req /\ sent' = ManifestResponse(cache))
       /\ \A e \in Extras : CatalogArrive(e) => req' = req
       /\ \A id \in StreamIds : StreamArrive(id) => req' = req
      ]_vars

(* C6: in every state the cached channels, genres and key are those of one
   completed parseM3U run, the one stored last (before the first store they
   are the constructor's empty values). *)
C6_SnapshotFromOneRun ==
    IF cache.lastUpdate = 0
    THEN /\ published = NoPublished
         /\ cache.channels = <<>> /\ cache.genres = <<>> /\ cache.m3uUrl = <<>>
    ELSE [m3u |-> cache.m3uUrl, channels |-> cache.channels,
          genres |-> cache.genres] = published

\* the cache holds Key2's snapshot while a refresh for Key1 is in flight
\* with channels of its first source already parsed
C6_Witness ==
    /\ cache.m3uUrl = Key2
    /\ cache.channels # <<>>
    /\ \E h \in Fetching : h.m3u = Key1 /\ h.run.channels # <<>>

\* this step starts a parseM3U run for q.m3u: one more handler stands at
\* the fetch of the first source of that key
StartsRefresh(q) ==
    \E h \in BagToSet(req') :
        /\ h.pc = "fetch" /\ h.m3u = q.m3u /\ h.run.urlIndex = 0
        /\ CopiesIn(h, req') = CopiesIn(h, req) + 1

\* what the arrival of manifest request q, which names a key, leaves
\* behind: an answer, or one more suspended handler with q's key
KeyedArrival(q) ==
    /\ clock' = clock
    /\ \/ req' = req /\ sent'.kind = "manifest"
       \/ /\ BagCardinality(req') > BagCardinality(req)
          /\ \E g \in BagToSet(req') :
                 g.m3u = q.m3u /\ CopiesIn(g, req') = CopiesIn(g, req) + 1

(* C7: a manifest request starts a playlist refresh if and only if its key
   differs from the cached key, or nothing was fetched yet, or the
   snapshot's age exceeds the request's update interval. *)
C7_RefreshDecision ==
    [][\A q \in Queries :
          (q.m3u # <<>> /\ KeyedArrival(q) /\ ManifestArrive(q))
              => (StartsRefresh(q) <=>
                    \/ q.m3u # cache.m3uUrl
                    \/ cache.lastUpdate = 0
                    \/ clock - cache.lastUpdate
                           > parseUpdateInterval(q.update_interval))
      ]_vars

\* a refresh for Key2 is in flight, forced by the key change, while the
\* cached snapshot of Key1 is fresh (stored at this very time)
C7_Witness ==
    /\ cache.m3uUrl = Key1
    /\ cache.lastUpdate = clock
    /\ \E h \in Fetching : h.m3u = Key2

(* C8: while no playlist snapshot has been fetched, no catalog or stream
   request has been answered: such a request waits for a refresh. *)
C8_EmptyReadWaitsForRefresh ==
    sent.kind \in {"catalog", "stream"} => cache.lastUpdate # 0

\* channels of the run that come from sources before source k (0-based)
ChannelsBefore(run, k) ==
    Cardinality({i \in DOMAIN run.channels : run.channels[i].sourceIndex < k})

(* C9: a parseM3U run never holds more than cache.maxChannels channels, and
   a source is fetched only if the sources before it left the run below the
   cap. *)
C9_ChannelCapHard ==
    /\ Len(parse.channels) <= cache.maxChannels
    /\ \A k \in DOMAIN parse.log :
           ChannelsBefore(parse, k - 1) < cache.maxChannels

\* line i of document d is a metadata line whose next metadata or stream
\* line is a stream line
Paired(d, i) ==
    /\ d[i].type = "extinf"
    /\ \E j \in (i + 1)..Len(d) :
           /\ d[j].type = "url"
           /\ \A k \in (i + 1)..(j - 1) : d[k].type = "other"

NameOf(line) == IF line.name = Null THEN "Unknown" ELSE line.name

Committed(run, k, n) ==
    {i \in DOMAIN run.channels :
        run.channels[i].sourceIndex = k /\ run.channels[i].name = n}

PairedLines(d, n) ==
    {i \in DOMAIN d : d[i].type = "extinf" /\ NameOf(d[i]) = n /\ Paired(d, i)}

(* C10: every channel of a parseM3U run has a non-empty stream list, and
   from each fetched document the channels of a given name are no more than
   its metadata lines of that name whose next metadata or stream line is a
   stream line (as many, while the cap is not reached): a metadata line
   followed by another metadata line yields no channel. *)
C10_CommittedHaveStreams ==
    /\ \A i \in DOMAIN parse.channels :
           Len(parse.channels[i].streamInfo.urls) > 0
    /\ \A k \in DOMAIN parse.log :
           \A n \in {"BBC One", "CNN", "Unknown"} :
               LET got  == Cardinality(Committed(parse, k - 1, n))
                   want == IF parse.log[k].ok
                           THEN Cardinality(PairedLines(parse.log[k].data, n))
                           ELSE 0
               IN  /\ got <= want
                   /\ Len(parse.channels) < cache.maxChannels => got = want

\* the first source held metadata, metadata, stream: only the second
\* metadata line gave a channel
C10_Witness ==
    /\ Len(parse.log) >= 1
    /\ parse.log[1] = Fetched(<<BBC, CNN, S1>>)
    /\ Len(parse.channels) = 1
    /\ parse.channels[1].name = "CNN"
    /\ Len(parse.channels[1].streamInfo.urls) = 1

(* C11: no two channels of one parseM3U run have the same id. *)
C11_ChannelIdsUnique ==
    \A i, j \in DOMAIN parse.channels :
        i # j => parse.channels[i].id # parse.channels[j].id

(* C12: the genres of every parseM3U run, in flight or stored, and the
   cached genre list once a refresh has been stored, contain
   'Other Channels'. *)
C12_GenresHoldSentinel ==
    /\ \A h \in Fetching : "Other Channels" \in Range(h.run.genres)
    /\ published # NoPublished => "Other Channels" \in Range(published.genres)
    /\ cache.lastUpdate # 0 => "Other Channels" \in Range(cache.genres)

\* a refresh all of whose sources failed has been stored: no channel, and
\* the sentinel alone in the genre list
C12_Witness ==
    /\ cache.lastUpdate # 0
    /\ cache.channels = <<>>
    /\ cache.genres = <<"Other Channels">>

\* the channels a fetch outcome gives as source k of a run that holds no
\* channel yet
Alone(outcome, k, maxChannels) ==
    IF outcome.ok
    THEN LineLoop([channels |-> <<>>, genres |-> <<"Other Channels">>,
                   currentChannel |-> NoChannel, stop |-> FALSE],
                  outcome.data, 1, k, maxChannels).channels
    ELSE <<>>

RECURSIVE ConcatAlone(_, _, _)
ConcatAlone(log, k, maxChannels) ==
    IF k > Len(log) THEN <<>>
    ELSE Alone(log[k], k - 1, maxChannels)
             \o ConcatAlone(log, k + 1, maxChannels)

(* C13: a source whose fetch fails does not end the parse: every source of
   the list is fetched in turn; the channels are in source order, each from
   a source that was fetched, with sourceIndex and id suffix the source's
   position in the list; below the cap they are exactly the channels of the
   fetched documents, one source after the other. *)
C13_FailedSourceSkipped ==
    /\ parse.urlIndex = Len(parse.log)
    /\ parse.urlIndex <= Len(parse.urlList)
    /\ \A i \in DOMAIN parse.channels :
           LET ch == parse.channels[i]
           IN  /\ ch.sourceIndex \in 0..(Len(parse.log) - 1)
               /\ parse.log[ch.sourceIndex + 1].ok
               /\ ch.id = "tv|" \o ch.tvgId \o "_" \o ToString(ch.sourceIndex)
               /\ \A j \in DOMAIN parse.channels :
                      i < j => ch.sourceIndex <= parse.channels[j].sourceIndex
    /\ Len(parse.channels) < cache.maxChannels
           => parse.channels = ConcatAlone(parse.log, 1, cache.maxChannels)

\* the first source failed and the second gave a channel, numbered 1
C13_Witness ==
    /\ parse.log = <<FetchError, Fetched(<<BBC, S1>>)>>
    /\ Len(parse.channels) = 1
    /\ parse.channels[1].sourceIndex = 1
    /\ parse.channels[1].id = "tv|bbc1_1"

RECURSIVE SumSeq(_)
SumSeq(q) == IF q = <<>> THEN 0 ELSE Head(q) + SumSeq(Tail(q))

(* C14: parseEPG settles to a parsed document only when the declared
   content length is at most 100MB and the whole streamed document is at
   most 50MB; otherwise its result is null, never a document parsed from
   the chunks kept before the ceiling was crossed. *)
C14_OversizeGivesNoGuide ==
    (epg.result.settled /\ epg.result.value # NullGuide)
        => /\ epg.contentLength <= headCeiling
           /\ SumSeq(epg.doc.chunks) <= maxSize

(* C19: a GET is issued only as the second request, after a HEAD that has
   completed with a content length of at most 100MB; after a HEAD that
   reported more, parseEPG has returned null and no GET was issued. *)
C19_HeadBeforeGet ==
    /\ \A i \in DOMAIN epg.requests :
           epg.requests[i] = "GET"
               => /\ i = 2
                  /\ epg.requests[1] = "HEAD"
                  /\ epg.pc # "head"
                  /\ epg.contentLength <= headCeiling
    /\ epg.contentLength > headCeiling
           => /\ epg.result = [settled |-> TRUE, value |-> NullGuide]
              /\ epg.requests = <<"HEAD">>

\* the HEAD reported one byte more than 100MB: null, and no GET
C19_Witness ==
    /\ epg.contentLength = headCeiling + 1
    /\ epg.requests = <<"HEAD">>
    /\ epg.result.settled

\* the programmes of the looked-up document that are for the looked-up
\* channel, have both dates, and whose window, closed or half-open at its
\* stop, holds the instant
Containing(closed) ==
    {i \in DOMAIN calc.xml :
        LET x == calc.xml[i]
        IN  /\ x.attrs
            /\ Normalize(x.channel) = Normalize(calc.channelId)
            /\ x.start.match /\ x.stop.match
            /\ x.start.t * 1000 <= calc.now
            /\ IF closed THEN calc.now <= x.stop.t * 1000
                         ELSE calc.now < x.stop.t * 1000}

FirstOf(S) == CHOOSE i \in S : \A j \in S : i <= j

(* C15: getCurrentProgram, on a guide as parseEPG loads it, gives none when
   no window of the channel holds the instant, and otherwise the first
   programme in document order whose window holds it (instants that are the
   stop of a window are left to C20). *)
C15_LookupFindsContaining ==
    (calc.done /\ calc.fn = "getCurrentProgram") =>
        /\ Containing(TRUE) = {} => calc.result = NoProgram
        /\ (Containing(TRUE) # {} /\ Containing(TRUE) = Containing(FALSE))
               => /\ calc.result.found
                  /\ calc.result.title = calc.xml[FirstOf(Containing(TRUE))].title
                  /\ calc.result.start
                         = calc.xml[FirstOf(Containing(TRUE))].start.t * 1000

(* C20: a programme is returned only for an instant in its half-open
   window: start <= now < stop. *)
C20_WindowHalfOpen ==
    (calc.done /\ calc.result.found)
        => (calc.result.start <= calc.now /\ calc.now < calc.result.stop)

\* the string is "HH:MM": two parts, each of two digits
WellFormedInterval(ps) ==
    /\ Len(ps) = 2
    /\ \A i \in 1..2 : Len(ps[i]) = 1 /\ ps[i][1] \in TwoDigits

(* C16: for every string that is not "HH:MM" (empty, no colon, more than
   one colon, an hour or minute part that is not a number),
   parseUpdateInterval returns the default of 2 hours. *)
C16_MalformedGivesDefault ==
    (calc.done /\ ~WellFormedInterval(calc.parts))
        => calc.result = 2 * 60 * 60 * 1000

\* the URLs of a list joined by commas
RECURSIVE JoinComma(_)
JoinComma(us) ==
    IF us = <<>> THEN <<>>
    ELSE IF Len(us) = 1 THEN us[1]
    ELSE us[1] \o <<",">> \o JoinComma(Tail(us))

(* C17: the URL list of a list encoded one or more times is the URL list
   of the same list encoded once, and normalizing a URL list that was
   normalized gives it back. *)
C17_NormalizeFixedPoint ==
    (calc.done /\ calc.levels >= 1)
        => /\ calc.result = NewRun(EncodeTimes(calc.plain, 1)).urlList
           /\ NewRun(JoinComma(calc.result)).urlList = calc.result

(* C18: when decodeURIComponent throws in the decoding loop, the URL list
   is made from the value decoded last (with or without the removal of
   entities and parameters that follows the loop), not from the raw
   parameter. *)
C18_DecodeFailureKeepsLastGood ==
    (calc.done /\ DecodeLoop(calc.input).threw)
        => \/ calc.result = urlList(DecodeLoop(calc.input).value)
           \/ calc.result = urlList(StripParams(
                                 Unescape(DecodeLoop(calc.input).value), FALSE))

\* the number two digits write
DigitsValue(x) ==
    CASE x = "00" -> 0
      [] x = "02" -> 2
      [] x = "04" -> 4
      [] x = "12" -> 12
      [] x = "30" -> 30

(* C21: for every string "HH:MM" of two two-digit parts,
   parseUpdateInterval returns (HH * 60 + MM) minutes in milliseconds. *)
C21_WellFormedInterval ==
    (calc.done /\ WellFormedInterval(calc.parts))
        => calc.result
              = (DigitsValue(calc.parts[1][1]) * 60
                    + DigitsValue(calc.parts[2][1])) * 60 * 1000

\* this step suspends one more handler at its guide load
GuideLoadStarts ==
    \E g \in BagToSet(req') :
        g.pc = "epg" /\ CopiesIn(g, req') = CopiesIn(g, req) + 1

\* this step ends a guide load: a handler suspended at it has answered
GuideLoadEnds ==
    \E h \in Handlers : h.pc = "epg" /\ CopiesIn(h, req') < CopiesIn(h, req)

\* what a manifest request that arrives and starts no parseM3U run leaves
\* behind: an answer, or one more handler suspended at its guide load
NoRefreshArrival ==
    /\ clock' = clock
    /\ \/ req' = req /\ sent'.kind = "manifest" /\ sent'.status = 200
       \/ BagCardinality(req') > BagCardinality(req) /\ GuideLoadStarts

\* a parseM3U run of handler h ends in this step
RunEnds(h) ==
    /\ h.run.urlIndex + 1 = Len(h.run.urlList)
    /\ CopiesIn(h, req') < CopiesIn(h, req)

\* this step ends the playlist part of a guide-enabled manifest request:
\* the request arrives and starts no parseM3U run, or its run ends
GuideDecisionTaken ==
    \/ /\ NoRefreshArrival
       /\ \E q \in Queries :
              /\ q.m3u # <<>> /\ EpgWanted(q)
              /\ ManifestArrive(q)
    \/ \E h \in Fetching : h.epg # "" /\ RunEnds(h)

\* the same for a request that names the guide URL u
GuideDecisionFor(u) ==
    \/ /\ NoRefreshArrival
       /\ \E q \in GuideQueries : q.epg = u /\ ManifestArrive(q)
    \/ \E h \in Fetching : h.epg = u /\ RunEnds(h)

(* C22: every step but the end of a guide load (so every step of the
   playlist part of a manifest request: its arrival, a fetch settling, the
   storing of the run's result) leaves cache.epgData and
   cache.epgLastUpdate as they were; the end of a guide load, good or
   failed, leaves cache.channels, cache.genres, cache.m3uUrl and
   cache.lastUpdate as they were; and a guide-enabled request starts a
   guide load exactly when no guide was loaded yet or the guide is older
   than 6 hours, whatever its update interval. *)
C22_LifecyclesIndependent ==
    [][/\ ~GuideLoadEnds
              => /\ cache'.epgData = cache.epgData
                 /\ cache'.epgLastUpdate = cache.epgLastUpdate
       /\ GuideLoadEnds
              => /\ cache'.channels = cache.channels
                 /\ cache'.genres = cache.genres
                 /\ cache'.m3uUrl = cache.m3uUrl
                 /\ cache'.lastUpdate = cache.lastUpdate
       /\ GuideDecisionTaken
              => (GuideLoadStarts <=>
                    \/ cache.epgLastUpdate = 0
                    \/ clock - cache.epgLastUpdate > 6 * Hour)
      ]_vars

\* a playlist refresh was stored after the guide was loaded, and the guide
\* and its time are still there
C22_Witness ==
    /\ cache.epgData = Guide1
    /\ cache.epgLastUpdate > 0
    /\ cache.lastUpdate > cache.epgLastUpdate
    /\ cache.channels # <<>>

(* C23: once the result of parseEPG is settled no later event changes it
   (the timer firing after a parsed document was returned, or the rest of
   the 'end' listener running after the timer or an error gave null), and
   the result is settled whenever the call is over or its timer has
   fired. *)
C23_SettledOnce ==
    [][/\ epg.result.settled => epg'.result = epg.result
       /\ (epg'.pc = "over" \/ epg'.timer = "fired") => epg'.result.settled
      ]_vars

\* the timer has fired after a parsed document was returned
C23_Witness ==
    /\ epg.result.settled
    /\ epg.result.value # NullGuide
    /\ epg.timer = "fired"

(* C24: at every point of a parseM3U run, and so in what it returns, the
   group of every committed channel is in the run's genres. *)
C24_GroupsAreGenres ==
    \A i \in DOMAIN parse.channels :
        parse.channels[i].group \in Range(parse.genres)

\* a run has ended with a channel of group News committed after the
\* sentinel genre
C24_Witness ==
    /\ RunDone(parse)
    /\ \E i \in DOMAIN parse.channels : parse.channels[i].group = "News"
    /\ parse.genres = <<"Other Channels", "News">>

\* this step answers 200 to a manifest request for playlist key K: the
\* request arrives and is answered without suspending, or a suspended
\* handler of key K answers
AnswersManifest(K) ==
    \/ /\ req' = req
       /\ sent'.kind = "manifest" /\ sent'.status = 200
       /\ \E q \in Queries : q.m3u = K /\ ManifestArrive(q)
    \/ /\ BagCardinality(req') < BagCardinality(req)
       /\ \E h \in Handlers : h.m3u = K /\ CopiesIn(h, req') < CopiesIn(h, req)

(* C25: every 200 answer to a manifest request for playlist key K is given
   while the catalog stored last is that of K, and its genre options are
   the genres of that catalog. *)
C25_ManifestGenresOfKey ==
    [][\A K \in Keys :
          AnswersManifest(K)
              => /\ published'.m3u = K
                 /\ sent'.body = published'.genres
      ]_vars

(* C26: a guide-enabled manifest request that names a guide URL other
   than the one the cached guide was loaded from starts a guide load from
   the URL it names, however young the cached guide is. *)
C26_GuideOfRequestedUrl ==
    [][\A u \in GuideUrls :
          (/\ GuideDecisionFor(u)
           /\ cache.epgData # NullGuide
           /\ cache.epgData # GuideServed(u))
              => \E g \in BagToSet(req') :
                     /\ g.pc = "epg" /\ g.epg = u
                     /\ CopiesIn(g, req') = CopiesIn(g, req) + 1
      ]_vars

====
